---- MODULE Spec2Model ----
(***************************************************************************)
(* Model of the crawler's scraper module (src/scraper.py): the link        *)
(* extractor with its Simhash near-duplicate store, the URL scope filter   *)
(* is_valid, and their composition scraper.                                *)
(*                                                                         *)
(* URLs, hrefs and page text are TLA+ strings, handled as the character    *)
(* sequences they are (Len, SubSeq, \o), so urlparse, endswith, the        *)
(* extension and trap patterns are computed on the characters.             *)
(***************************************************************************)
EXTENDS Integers, Sequences, FiniteSets, TLC

VARIABLES
    visited_simhashes,  \* extract_next_links.visited_simhashes (function attribute)
    has_store,          \* hasattr(extract_next_links, "visited_simhashes")
    pc,                 \* position of the sequential worker loop
    page,               \* (url, resp) handed to scraper by the worker
    links,              \* what extract_next_links returned to scraper
    ret,                \* what scraper returned
    outcome,            \* "none" | "returned" | "raised"
    log,                \* history of finished scraper calls (text, whether stored)
    arg,                \* the string handed to a direct is_valid call
    valid_out,          \* outcome of that call
    th                  \* per-thread frames of concurrently running scraper calls

vars == <<visited_simhashes, has_store, pc, page, links, ret, outcome, log,
          arg, valid_out, th>>

-----------------------------------------------------------------------------
(* Bounds of the model                                                     *)

MaxNodes == 2       \* nodes (text runs, scripts, anchors) in one page body
MaxCalls == 2       \* pages with content one crawl processes
FpBits == 5         \* width of a fingerprint (the library's is 64)

-----------------------------------------------------------------------------
(* Strings (Python str methods used by the code)                           *)

Char(s, i) == SubSeq(s, i, i)

StartsWith(s, p) == Len(s) >= Len(p) /\ SubSeq(s, 1, Len(p)) = p

EndsWith(s, p) == Len(s) >= Len(p) /\ SubSeq(s, Len(s) - Len(p) + 1, Len(s)) = p

Contains(s, p) == \E i \in 1..(Len(s) - Len(p) + 1) : SubSeq(s, i, i + Len(p) - 1) = p

Count(s, c) == Cardinality({i \in 1..Len(s) : Char(s, i) = c})

\* index of the first character of s that is in cs, 0 when there is none
FindAny(s, cs) ==
    IF \E i \in 1..Len(s) : Char(s, i) \in cs
    THEN CHOOSE i \in 1..Len(s) :
            Char(s, i) \in cs /\ \A j \in 1..(i - 1) : Char(s, j) \notin cs
    ELSE 0

UpperChars == "ABCDEFGHIJKLMNOPQRSTUVWXYZ"
LowerChars == "abcdefghijklmnopqrstuvwxyz"

\* str.lower() on one character
LowerOf ==
    [c \in {Char(UpperChars, i) : i \in 1..Len(UpperChars)} |->
        Char(LowerChars, CHOOSE i \in 1..Len(UpperChars) : Char(UpperChars, i) = c)]

LowerChar(c) == IF c \in DOMAIN LowerOf THEN LowerOf[c] ELSE c

RECURSIVE Lower(_)
Lower(s) ==
    IF Len(s) = 0 THEN ""
    ELSE IF Len(s) = 1 THEN LowerChar(s)
    ELSE Lower(SubSeq(s, 1, Len(s) \div 2)) \o Lower(SubSeq(s, Len(s) \div 2 + 1, Len(s)))

-----------------------------------------------------------------------------
(* urllib.parse.urlparse as is_valid uses it (scraper.py line 74)          *)

SchemeChars ==
    LET cs == UpperChars \o LowerChars \o "0123456789+-."
    IN  {Char(cs, i) : i \in 1..Len(cs)}

\* Split off "scheme:" when every character before the first colon is a scheme character.
SplitScheme(url) ==
    LET i == FindAny(url, {":"})
    IN  IF i > 1 /\ \A k \in 1..(i - 1) : Char(url, k) \in SchemeChars
        THEN [scheme |-> Lower(SubSeq(url, 1, i - 1)), rest |-> SubSeq(url, i + 1, Len(url))]
        ELSE [scheme |-> "", rest |-> url]

\* Split "//netloc" off the rest; the netloc ends at the first of / ? #.
SplitNetloc(rest) ==
    IF StartsWith(rest, "//")
    THEN LET r == SubSeq(rest, 3, Len(rest))
             d == FindAny(r, {"/", "?", "#"})
         IN  IF d = 0 THEN [netloc |-> r, rest |-> ""]
             ELSE [netloc |-> SubSeq(r, 1, d - 1), rest |-> SubSeq(r, d, Len(r))]
    ELSE [netloc |-> "", rest |-> rest]

\* split s at the first c: <<before, after>>, after = "" when c is absent
SplitAt(s, c) ==
    LET i == FindAny(s, {c})
    IN  IF i = 0 THEN <<s, "">> ELSE <<SubSeq(s, 1, i - 1), SubSeq(s, i + 1, Len(s))>>

ParseError ==
    [exc |-> "ValueError", scheme |-> "", netloc |-> "", path |-> "", query |-> "",
     fragment |-> ""]

Unbalanced(netloc) ==
    \/ (Contains(netloc, "[") /\ ~Contains(netloc, "]"))
    \/ (Contains(netloc, "]") /\ ~Contains(netloc, "["))

\* q = <<path, query>>
ParseQuery(scheme, netloc, q, fragment) ==
    [exc |-> "", scheme |-> scheme, netloc |-> netloc, path |-> q[1], query |-> q[2],
     fragment |-> fragment]

\* f = <<url without fragment, fragment>>
ParseFragment(scheme, netloc, f) == ParseQuery(scheme, netloc, SplitAt(f[1], "?"), f[2])

\* urlparse raises ValueError("Invalid IPv6 URL") on unbalanced brackets in the netloc.
ParseNetloc(scheme, n) ==
    IF Unbalanced(n.netloc) THEN ParseError
    ELSE ParseFragment(scheme, n.netloc, SplitAt(n.rest, "#"))

ParseScheme(s) == ParseNetloc(s.scheme, SplitNetloc(s.rest))

\* [exc, scheme, netloc, path, query, fragment]
urlparse(url) == ParseScheme(SplitScheme(url))

-----------------------------------------------------------------------------
(* is_valid (scraper.py lines 62-123)                                      *)

BlockedExtensions ==
    {"css", "js", "bmp", "gif", "jpg", "jpeg", "ico",
     "png", "tif", "tiff", "mid", "mp2", "mp3", "mp4",
     "wav", "avi", "mov", "mpeg", "ram", "m4v", "mkv", "ogg", "ogv", "pdf",
     "ps", "eps", "tex", "ppt", "pptx", "doc", "docx", "xls", "xlsx", "names",
     "data", "dat", "exe", "bz2", "tar", "msi", "bin", "7z", "psd", "dmg", "iso",
     "epub", "dll", "cnf", "tgz", "sha1",
     "thmx", "mso", "arff", "rtf", "jar", "csv",
     "rm", "smil", "wmv", "swf", "wma", "zip", "rar", "gz"}

BlockedSuffixes == {"." \o e : e \in BlockedExtensions}

EndsWithAny(s, suffixes) == \E x \in suffixes : EndsWith(s, x)

\* re.match(r".*\.(css|js|...)$", parsed.path.lower())
ExtensionBlocked(path) == EndsWithAny(Lower(path), BlockedSuffixes)

allowed_domains ==
    {".ics.uci.edu", ".cs.uci.edu", ".informatics.uci.edu", ".stat.uci.edu", "today.uci.edu"}

\* any(parsed.netloc.endswith(domain) for domain in allowed_domains)
DomainCheck(netloc) == \E domain \in allowed_domains : EndsWith(netloc, domain)

TodayPathPrefix == "/department/information_computer_sciences"

\* the today.uci.edu path restriction: TRUE when the URL is rejected by it
TodayPathRejected(p) ==
    EndsWith(p.netloc, "today.uci.edu") /\ ~StartsWith(p.path, TodayPathPrefix)

TrapPatterns ==
    {"calendar", "wp-content", "replytocom", "php?id=", "sort=", "session=", "ref=",
     "page=", "start=", "dir=", "date=", "filter=", "id=", "sid=", "query=", "view=",
     "tag=", "highlight=", "theme="}

ContainsAny(s, patterns) == \E t \in patterns : Contains(s, t)

\* re.search(r"(calendar|...|theme=)", parsed.query.lower())
TrapQuery(query) == ContainsAny(Lower(query), TrapPatterns)

MaxSlashes == 4
MaxQueryLen == 50

TooDeep(p) == Count(p.path, "/") > MaxSlashes \/ Len(p.query) > MaxQueryLen

Returned(b) == [exc |-> "", val |-> b]
Raised(e) == [exc |-> e, val |-> FALSE]

\* lines 76-119: the checks in the order of the code
Checks(parsed) ==
    IF parsed.exc # "" THEN Raised(parsed.exc)
    ELSE IF parsed.fragment # "" THEN Returned(FALSE)
    ELSE IF parsed.scheme \notin {"http", "https"} THEN Returned(FALSE)
    ELSE IF ExtensionBlocked(parsed.path) THEN Returned(FALSE)
    ELSE IF ~DomainCheck(parsed.netloc) THEN Returned(FALSE)
    ELSE IF TodayPathRejected(parsed) THEN Returned(FALSE)
    ELSE IF TrapQuery(parsed.query) THEN Returned(FALSE)
    ELSE IF TooDeep(parsed) THEN Returned(FALSE)
    ELSE Returned(TRUE)

\* The try body, lines 73-119.
is_valid_body(url) == Checks(urlparse(url))

\* except TypeError: print and re-raise; any other exception is not caught at all.
ExceptTypeError(r) == IF r.exc = "TypeError" THEN Raised("TypeError") ELSE r

\* [exc, val]: the boolean returned, or the exception that leaves is_valid
is_valid(url) == ExceptTypeError(is_valid_body(url))

-----------------------------------------------------------------------------
(* urllib.parse.urljoin as extract_next_links uses it (scraper.py line 57) *)
(* The removal of "." and ".." path segments is not modelled: no href in   *)
(* Hrefs holds a dot segment.                                              *)

uses_relative == {"", "http", "https", "ftp", "file"}

urlunparse(scheme, netloc, path, query, fragment) ==
    (IF scheme # "" THEN scheme \o ":" ELSE "")
    \o (IF netloc # "" THEN "//" \o netloc ELSE "")
    \o path
    \o (IF query # "" THEN "?" \o query ELSE "")
    \o (IF fragment # "" THEN "#" \o fragment ELSE "")

\* the base path up to and including its last "/"
RECURSIVE BaseDir(_)
BaseDir(path) ==
    IF path = "" \/ EndsWith(path, "/") THEN path
    ELSE BaseDir(SubSeq(path, 1, Len(path) - 1))

Joined(url) == [exc |-> "", url |-> url]

\* the relative reference appended to the base directory ("/" for an empty one)
Rebase(dir, path) == (IF dir = "" THEN "/" ELSE dir) \o path

Resolve(url, b, u, scheme) ==
    IF scheme # b.scheme \/ scheme \notin uses_relative THEN Joined(url)
    ELSE IF u.netloc # ""
        THEN Joined(urlunparse(scheme, u.netloc, u.path, u.query, u.fragment))
    ELSE IF u.path = ""
        THEN Joined(urlunparse(scheme, b.netloc, b.path,
                               IF u.query = "" THEN b.query ELSE u.query, u.fragment))
    ELSE IF StartsWith(u.path, "/")
        THEN Joined(urlunparse(scheme, b.netloc, u.path, u.query, u.fragment))
    ELSE Joined(urlunparse(scheme, b.netloc, Rebase(BaseDir(b.path), u.path),
                           u.query, u.fragment))

JoinParsed(url, b, u) ==
    IF b.exc # "" THEN [exc |-> b.exc, url |-> ""]
    ELSE IF u.exc # "" THEN [exc |-> u.exc, url |-> ""]
    ELSE Resolve(url, b, u, IF u.scheme = "" THEN b.scheme ELSE u.scheme)

\* [exc, url]: the absolute URL, or the ValueError urlparse raises on either argument.
\* Dot segments are not resolved (no href of the model holds one).
urljoin(base, url) ==
    IF base = "" THEN Joined(url)
    ELSE IF url = "" THEN Joined(base)
    ELSE JoinParsed(url, urlparse(base), urlparse(url))

-----------------------------------------------------------------------------
(* Page bodies as BeautifulSoup sees them: a sequence of nodes             *)

TextNode(w)   == [kind |-> "text",   data |-> w]   \* a run of visible text
ScriptNode(w) == [kind |-> "script", data |-> w]   \* <script>/<style> with text inside
Anchor(h)     == [kind |-> "a",      data |-> h]   \* <a href="h"></a>
AnchorNoHref  == [kind |-> "a_nohref", data |-> ""] \* <a> without an href attribute

TextWords == {"web", "page"}

Hrefs == {"people.html",                      \* relative, in scope once joined
          "https://evil.com/ics.uci.edu",     \* absolute, out of scope
          "http://[bad"}                      \* unbalanced bracket in the netloc

Nodes == {TextNode(w) : w \in TextWords} \cup {ScriptNode("var")}
         \cup {Anchor(h) : h \in Hrefs} \cup {AnchorNoHref}

\* raw_response.content: <<>> is the empty byte string
Contents == UNION {[1..n -> Nodes] : n \in 0..MaxNodes}

PageUrl == "https://www.ics.uci.edu/a/index.html"

\* resp: raw = FALSE is resp.raw_response None
Pages == {[url |-> PageUrl, status |-> s, raw |-> TRUE, content |-> c] :
             s \in {200, 404}, c \in Contents}
         \cup {[url |-> PageUrl, status |-> s, raw |-> FALSE, content |-> <<>>] :
             s \in {200, 404}}

\* the response carries body content (line 38)
HasContent(resp) == resp.raw /\ Len(resp.content) > 0

GetTextCons(n, rest) ==
    IF n.kind = "text"
    THEN IF rest = "" THEN n.data ELSE n.data \o " " \o rest
    ELSE rest

\* soup.get_text(separator=' ', strip=True) once script and style are decomposed
RECURSIVE get_text(_)
get_text(content) ==
    IF content = <<>> THEN "" ELSE GetTextCons(Head(content), get_text(Tail(content)))

\* soup.find_all('a', href=True): the hrefs in document order
RECURSIVE find_all_href(_)
find_all_href(content) ==
    IF content = <<>> THEN <<>>
    ELSE (IF Head(content).kind = "a" THEN <<Head(content).data>> ELSE <<>>)
         \o find_all_href(Tail(content))

-----------------------------------------------------------------------------
(* Simhash(content_text).value (scraper.py line 47): a majority-bit fold   *)
(* over the hashes of the text's features, FpBits wide                     *)

Pow2(n) == 2 ^ n

Bit(x, i) == (x \div Pow2(i)) % 2

HashAlphabet == "abcdefghijklmnopqrstuvwxyz0123456789"

CharCodeOf ==
    [c \in {Char(HashAlphabet, i) : i \in 1..Len(HashAlphabet)} |->
        CHOOSE i \in 1..Len(HashAlphabet) : Char(HashAlphabet, i) = c]

CharCode(c) == IF c \in DOMAIN CharCodeOf THEN CharCodeOf[c] ELSE 0

\* the hash of one feature, FpBits wide (stands for the library's md5-based hashfunc)
RECURSIVE FeatureHashFrom(_, _)
FeatureHashFrom(h, w) ==
    IF w = "" THEN h
    ELSE FeatureHashFrom((h * 31 + CharCode(Char(w, 1))) % Pow2(FpBits), SubSeq(w, 2, Len(w)))

FeatureHash(w) == FeatureHashFrom(0, w)

\* text cut at its i-th character: <<before, after>>; i = 0 keeps it whole
CutAt(text, i) ==
    IF i = 0 THEN <<text, "">> ELSE <<SubSeq(text, 1, i - 1), SubSeq(text, i + 1, Len(text))>>

\* the words of a text, separated by single spaces
RECURSIVE Split(_)
SplitCut(c) == <<c[1]>> \o Split(c[2])

Split(text) == IF text = "" THEN <<>> ELSE SplitCut(CutAt(text, FindAny(text, {" "})))

RECURSIVE SumBits(_, _)
SumBits(ws, i) ==
    IF ws = <<>> THEN 0
    ELSE (IF Bit(FeatureHash(Head(ws)), i) = 1 THEN 1 ELSE -1) + SumBits(Tail(ws), i)

RECURSIVE FoldBits(_, _)
FoldBits(ws, i) ==
    IF i = FpBits THEN 0
    ELSE (IF SumBits(ws, i) > 0 THEN Pow2(i) ELSE 0) + FoldBits(ws, i + 1)

\* Each occurrence of a feature weighs 1; bit i is set when its weighted sum is positive.
Simhash(text) == FoldBits(Split(Lower(text)), 0)

\* bin(a ^ b).count('1')
Hamming(a, b) == Cardinality({i \in 0..(FpBits - 1) : Bit(a, i) # Bit(b, i)})

Threshold == 3

-----------------------------------------------------------------------------
(* extract_next_links (scraper.py lines 20-60) and scraper (lines 6-18)    *)

\* Mutant: the comparison is strict, a page 3 bits away counts as new.
IsNearDuplicateStrict(h, store) ==
    \E existing_hash \in store : Hamming(h, existing_hash) < Threshold

\* any(bin(content_simhash ^ existing_hash).count('1') <= 3 for existing_hash in ...)
IsNearDuplicate(h, store) ==
    \E existing_hash \in store : Hamming(h, existing_hash) <= Threshold

\* Mutant: the store keeps only the newest fingerprint.
ReplaceSimhash(store, h) == {h}

\* Mutant: the fingerprint of a new page is never stored.
SkipSimhash(store, h) == store

\* extract_next_links.visited_simhashes.add(content_simhash)
AddSimhash(store, h) == store \cup {h}

\* the loop of lines 55-58: urljoin every href in turn; a urljoin that raises ends it
RECURSIVE JoinAll(_, _, _)
JoinNext(acc, url, j, rest) ==
    IF j.exc # "" THEN [exc |-> j.exc, links |-> <<>>]
    ELSE JoinAll(Append(acc, j.url), url, rest)

JoinAll(acc, url, hrefs) ==
    IF hrefs = <<>> THEN [exc |-> "", links |-> acc]
    ELSE JoinNext(acc, url, urljoin(url, Head(hrefs)), Tail(hrefs))

Extracted(store, j) == [exc |-> j.exc, links |-> j.links, store |-> store]

\* lines 49-58, once the page's fingerprint is known
CheckDuplicate(url, resp, store, content_simhash) ==
    IF IsNearDuplicate(content_simhash, store)
    THEN [exc |-> "", links |-> <<>>, store |-> store]
    ELSE Extracted(AddSimhash(store, content_simhash),
                   JoinAll(<<>>, url, find_all_href(resp.content)))

\* [exc, links, store]: the exception raised if any, the list returned, the store afterwards
extract_next_links(url, resp, store) ==
    IF ~HasContent(resp) THEN [exc |-> "", links |-> <<>>, store |-> store]
    ELSE CheckDuplicate(url, resp, store, Simhash(get_text(resp.content)))

\* [link for link in links if is_valid(link)]; an is_valid that raises ends the comprehension
RECURSIVE FilterFrom(_, _)
FilterNext(acc, link, v, rest) ==
    IF v.exc # "" THEN [exc |-> v.exc, ret |-> <<>>]
    ELSE FilterFrom(IF v.val THEN Append(acc, link) ELSE acc, rest)

FilterFrom(acc, ls) ==
    IF ls = <<>> THEN [exc |-> "", ret |-> acc]
    ELSE FilterNext(acc, Head(ls), is_valid(Head(ls)), Tail(ls))

\* Mutant: the comprehension also drops a link that already occurred.
RECURSIVE DedupFrom(_, _)
DedupNext(acc, link, v, rest) ==
    IF v.exc # "" THEN [exc |-> v.exc, ret |-> <<>>]
    ELSE DedupFrom(IF v.val /\ \A k \in 1..Len(acc) : acc[k] # link
                   THEN Append(acc, link) ELSE acc, rest)

DedupFrom(acc, ls) ==
    IF ls = <<>> THEN [exc |-> "", ret |-> acc]
    ELSE DedupNext(acc, Head(ls), is_valid(Head(ls)), Tail(ls))

FilterValidDedup(ls) == DedupFrom(<<>>, ls)

FilterValid(ls) == FilterFrom(<<>>, ls)

Scraped(e, f) == [exc |-> f.exc, links |-> e.links, ret |-> f.ret, store |-> e.store]

ScraperFilter(e) ==
    IF e.exc # "" THEN [exc |-> e.exc, links |-> <<>>, ret |-> <<>>, store |-> e.store]
    ELSE Scraped(e, FilterValid(e.links))

\* [exc, links, ret, store]
scraper(url, resp, store) == ScraperFilter(extract_next_links(url, resp, store))

-----------------------------------------------------------------------------
(* The sequential crawl: the worker hands scraper one page at a time       *)

NoPage == [url |-> "", status |-> 0, raw |-> FALSE, content |-> <<>>]
NoOut == [exc |-> "", val |-> FALSE]
Threads == {1, 2}
IdleFrame == [pc |-> "idle", page |-> NoPage, simhash |-> 0, todo |-> {}, size |-> 0,
              stale |-> FALSE, novel |-> FALSE, exc |-> "", links |-> <<>>, ret |-> <<>>,
              calls |-> 0]

Init ==
    /\ visited_simhashes = {}
    /\ has_store = FALSE
    /\ pc = "idle"
    /\ page = NoPage
    /\ links = <<>>
    /\ ret = <<>>
    /\ outcome = "none"
    /\ log = <<>>
    /\ arg = ""
    /\ valid_out = NoOut
    /\ th = [t \in Threads |-> IdleFrame]

\* the effect on the state of a call that ended as r
ScraperEnds(p, r) ==
    /\ visited_simhashes' = r.store
    /\ has_store' = TRUE
    /\ links' = r.links
    /\ ret' = r.ret
    /\ outcome' = IF r.exc = "" THEN "returned" ELSE "raised"
    /\ log' = IF HasContent(p)
              THEN Append(log, [text |-> get_text(p.content),
                                simhash |-> Simhash(get_text(p.content)),
                                stored |-> r.store # visited_simhashes])
              ELSE log

\* The worker calls scraper(url, resp) on the page p it downloaded: one whole call.
Scraper(p) ==
    /\ pc = "idle"
    /\ Len(log) < MaxCalls
    /\ page' = p
    /\ ScraperEnds(p, scraper(p.url, p, visited_simhashes))
    /\ pc' = "done"
    /\ UNCHANGED <<arg, valid_out, th>>

\* The worker takes the result (or the exception) and goes for the next page.
Return ==
    /\ pc = "done"
    /\ pc' = "idle"
    /\ page' = NoPage
    /\ links' = <<>>
    /\ ret' = <<>>
    /\ outcome' = "none"
    /\ UNCHANGED <<visited_simhashes, has_store, log, arg, valid_out, th>>

Next ==
    \/ \E p \in Pages : Scraper(p)
    \/ Return

Spec == Init /\ [][Next]_vars

-----------------------------------------------------------------------------
(* is_valid on its own: a caller hands it some string                      *)

Schemes == {"http", "https", "HTTPS", "ftp"}

Netlocs == {"ics.uci.edu", "www.ics.uci.edu", "cs.ics.uci.edu", "evilics.uci.edu",
            "evil-ics.uci.edu.attacker.com", "evil.com", "uci.edu",
            "cs.uci.edu", "www.cs.uci.edu", "www.informatics.uci.edu",
            "www.stat.uci.edu", "today.uci.edu", "nottoday.uci.edu",
            "www.ics.uci.edu:8080", "WWW.ICS.UCI.EDU", "[::1", "[::1]"}

Paths == {"", "/page", "/file.zip", "/FILE.PDF", "/ics.uci.edu", "/a/b/c/d/e",
          "/department/information_computer_sciences/news"}

Queries == {"", "?q=1", "?Page=3",
            "?q=aaaaaaaaaaaaaaaaaaaaaaaaaaaaaaaaaaaaaaaaaaaaaaaaaaaaaaaaaaaa"}

Fragments == {"", "#a"}

UrlInputs ==
    {s \o "://" \o n \o p \o q \o f :
        s \in Schemes, n \in Netlocs, p \in Paths, q \in Queries, f \in Fragments}
    \cup {"", "people.html", "//www.ics.uci.edu/page", "mailto:x@ics.uci.edu",
          "http://[bad", "https://www.ics.uci.edu]/page"}

InitValid ==
    /\ visited_simhashes = {}
    /\ has_store = FALSE
    /\ pc = "ask"
    /\ page = NoPage
    /\ links = <<>>
    /\ ret = <<>>
    /\ outcome = "none"
    /\ log = <<>>
    /\ arg \in UrlInputs
    /\ valid_out = NoOut
    /\ th = [t \in Threads |-> IdleFrame]

\* One whole call is_valid(arg).
IsValid ==
    /\ pc = "ask"
    /\ valid_out' = is_valid(arg)
    /\ pc' = "answered"
    /\ UNCHANGED <<visited_simhashes, has_store, page, links, ret, outcome, log, arg, th>>

NextValid == IsValid

SpecValid == InitValid /\ [][NextValid]_vars

-----------------------------------------------------------------------------
(* Concurrent workers: each thread runs scraper on its own page; the       *)
(* interpreter may switch threads between statements and between the       *)
(* iterations of line 50's generator. No statement of the code takes a     *)
(* lock.                                                                   *)

ConcNodes == {TextNode(w) : w \in TextWords} \cup {Anchor("https://www.ics.uci.edu/about")}

ConcPages ==
    {[url |-> PageUrl, status |-> 200, raw |-> TRUE, content |-> c] :
        c \in UNION {[1..n -> ConcNodes] : n \in 0..MaxNodes}}

RECURSIVE CallsStarted(_)
CallsStarted(ts) ==
    IF ts = {} THEN 0
    ELSE th[CHOOSE t \in ts : TRUE].calls + CallsStarted(ts \ {CHOOSE t \in ts : TRUE})

InitConc ==
    /\ visited_simhashes = {}
    /\ has_store = FALSE
    /\ pc = "threads"
    /\ page = NoPage
    /\ links = <<>>
    /\ ret = <<>>
    /\ outcome = "none"
    /\ log = <<>>
    /\ arg = ""
    /\ valid_out = NoOut
    /\ th = [t \in Threads |-> IdleFrame]

ConcUnchanged == UNCHANGED <<pc, page, links, ret, outcome, log, arg, valid_out>>

\* Thread t is handed page p and enters scraper.
Start(t, p) ==
    /\ th[t].pc = "idle"
    /\ CallsStarted(Threads) < MaxCalls
    /\ th' = [th EXCEPT ![t] = [IdleFrame EXCEPT !.pc = "hasattr", !.page = p,
                                                 !.calls = th[t].calls + 1]]
    /\ UNCHANGED <<visited_simhashes, has_store>>
    /\ ConcUnchanged

\* line 32: if not hasattr(extract_next_links, "visited_simhashes")
HasAttr(t) ==
    /\ th[t].pc = "hasattr"
    /\ th' = [th EXCEPT ![t].pc = IF has_store THEN "content" ELSE "initattr"]
    /\ UNCHANGED <<visited_simhashes, has_store>>
    /\ ConcUnchanged

\* line 33: the attribute is bound to a new empty set; a thread iterating the set that was
\* bound before keeps iterating that one
InitAttr(t) ==
    /\ th[t].pc = "initattr"
    /\ visited_simhashes' = {}
    /\ has_store' = TRUE
    /\ th' = [u \in Threads |->
                IF u = t THEN [th[u] EXCEPT !.pc = "content"]
                ELSE IF th[u].pc = "scan" THEN [th[u] EXCEPT !.stale = TRUE]
                ELSE th[u]]
    /\ ConcUnchanged

\* lines 35-50: the text, its Simhash, and the iterator over the store that any() will drive
Content(t) ==
    /\ th[t].pc = "content"
    /\ th' = [th EXCEPT ![t] =
                IF ~HasContent(th[t].page)
                THEN [th[t] EXCEPT !.pc = "filter", !.links = <<>>]
                ELSE [th[t] EXCEPT !.pc = "scan",
                                   !.simhash = Simhash(get_text(th[t].page.content)),
                                   !.todo = visited_simhashes,
                                   !.size = Cardinality(visited_simhashes),
                                   !.stale = FALSE]]
    /\ UNCHANGED <<visited_simhashes, has_store>>
    /\ ConcUnchanged

\* the set's size differs from the size it had when the iterator was made
SizeChanged(t) == ~th[t].stale /\ Cardinality(visited_simhashes) # th[t].size

\* line 50, one next() of the generator: RuntimeError when the set changed size during the
\* iteration, else the comparison with one more stored fingerprint (in the set's order)
Scan(t) ==
    /\ th[t].pc = "scan"
    /\ \/ /\ SizeChanged(t)
          /\ th' = [th EXCEPT ![t].pc = "done", ![t].exc = "RuntimeError"]
       \/ /\ ~SizeChanged(t)
          /\ th[t].todo = {}
          /\ th' = [th EXCEPT ![t].pc = "add"]
       \/ /\ ~SizeChanged(t)
          /\ \E existing_hash \in th[t].todo :
                th' = [th EXCEPT ![t] =
                        IF IsNearDuplicate(th[t].simhash, {existing_hash})
                        THEN [th[t] EXCEPT !.pc = "filter", !.links = <<>>, !.todo = {}]
                        ELSE [th[t] EXCEPT !.todo = th[t].todo \ {existing_hash}]]
    /\ UNCHANGED <<visited_simhashes, has_store>>
    /\ ConcUnchanged

\* line 52: the page was judged new
Add(t) ==
    /\ th[t].pc = "add"
    /\ visited_simhashes' = AddSimhash(visited_simhashes, th[t].simhash)
    /\ th' = [th EXCEPT ![t].pc = "anchors", ![t].novel = TRUE]
    /\ UNCHANGED has_store
    /\ ConcUnchanged

AnchorsEnd(f, j) ==
    IF j.exc # "" THEN [f EXCEPT !.pc = "done", !.exc = j.exc]
    ELSE [f EXCEPT !.pc = "filter", !.links = j.links]

\* lines 55-60: the anchors of the page
Anchors(t) ==
    /\ th[t].pc = "anchors"
    /\ th' = [th EXCEPT ![t] =
                AnchorsEnd(th[t], JoinAll(<<>>, th[t].page.url, find_all_href(th[t].page.content)))]
    /\ UNCHANGED <<visited_simhashes, has_store>>
    /\ ConcUnchanged

FilterEnd(f, r) == [f EXCEPT !.pc = "done", !.exc = r.exc, !.ret = r.ret]

\* line 18: scraper filters what extract_next_links returned
Filter(t) ==
    /\ th[t].pc = "filter"
    /\ th' = [th EXCEPT ![t] = FilterEnd(th[t], FilterValid(th[t].links))]
    /\ UNCHANGED <<visited_simhashes, has_store>>
    /\ ConcUnchanged

\* The worker takes the result (or the exception) and is free for another page.
Finish(t) ==
    /\ th[t].pc = "done"
    /\ th' = [th EXCEPT ![t] = [IdleFrame EXCEPT !.calls = th[t].calls]]
    /\ UNCHANGED <<visited_simhashes, has_store>>
    /\ ConcUnchanged

NextConc ==
    \/ \E t \in Threads, p \in ConcPages : Start(t, p)
    \/ \E t \in Threads : HasAttr(t)
    \/ \E t \in Threads : InitAttr(t)
    \/ \E t \in Threads : Content(t)
    \/ \E t \in Threads : Scan(t)
    \/ \E t \in Threads : Add(t)
    \/ \E t \in Threads : Anchors(t)
    \/ \E t \in Threads : Filter(t)
    \/ \E t \in Threads : Finish(t)

SpecConc == InitConc /\ [][NextConc]_vars

-----------------------------------------------------------------------------
(* Properties of the sequential crawl (Spec)                               *)

\* the step in which scraper runs on a page that carries body content
ContentCall == pc = "idle" /\ pc' = "done" /\ HasContent(page')

\* the fingerprint of the page of the last finished call with content
LastSimhash == log[Len(log)].simhash

\* C1: a page with content is classified a duplicate (no links, store unchanged) exactly
\* when some stored fingerprint is within Hamming distance 3 of its own; otherwise it is
\* novel and its fingerprint, and nothing else, is added to the store.
C1_DuplicateIffWithinThree ==
    [][ContentCall =>
          IF \E s \in visited_simhashes : Hamming(s, LastSimhash') <= 3
          THEN /\ visited_simhashes' = visited_simhashes
               /\ links' = <<>>
               /\ ret' = <<>>
               /\ outcome' = "returned"
          ELSE /\ visited_simhashes' = visited_simhashes \cup {LastSimhash'}
               /\ visited_simhashes' # visited_simhashes]_vars

\* a page was classified duplicate of a stored fingerprint that is not its own
C1_Witness ==
    /\ pc = "done"
    /\ HasContent(page)
    /\ ~log[Len(log)].stored
    /\ LastSimhash \notin visited_simhashes
    /\ \E s \in visited_simhashes : Hamming(s, LastSimhash) = 3

\* C3: a fetch result whose status is not 200, or whose body is absent or empty, yields
\* no extracted links whatever the body holds.
C3_NoLinksUnlessOk ==
    (pc = "done" /\ (page.status # 200 \/ ~HasContent(page))) => links = <<>>

\* C6: from an empty store, the same text twice in a row: the first call is novel and
\* stored, the second is a duplicate without links, and the store then holds 1 fingerprint.
C6_SameTextTwice ==
    [][(ContentCall /\ Len(log) = 1 /\ log[1].text = get_text(page'.content)) =>
          /\ log[1].stored
          /\ links' = <<>>
          /\ ret' = <<>>
          /\ outcome' = "returned"
          /\ visited_simhashes' = visited_simhashes
          /\ Cardinality(visited_simhashes') = 1]_vars

C6_Witness ==
    /\ pc = "done"
    /\ Len(log) = 2
    /\ log[1].text = log[2].text
    /\ log[1].stored
    /\ ~log[2].stored
    /\ Cardinality(visited_simhashes) = 1

\* C7: no step removes or replaces a stored fingerprint.
C7_StoreOnlyGrows == [][visited_simhashes \subseteq visited_simhashes']_vars

\* a second fingerprint was stored and the first is still there
C7_Witness ==
    /\ pc = "done"
    /\ Len(log) = 2
    /\ log[1].stored
    /\ log[2].stored
    /\ visited_simhashes = {log[1].simhash, log[2].simhash}

\* the positions of extract_next_links' list whose link the scope filter accepts
AcceptedAt == {i \in 1..Len(links) : is_valid(links[i]).val}

\* the k-th accepted position, in document order
KthAccepted(k) == CHOOSE i \in AcceptedAt : Cardinality({j \in AcceptedAt : j <= i}) = k

C9_StoredPairwiseFar ==
    \A a, b \in visited_simhashes : a # b => Hamming(a, b) > 3

\* two fingerprints are stored, 4 bits apart
C9_Witness ==
    /\ pc = "idle"
    /\ \E a, b \in visited_simhashes : Hamming(a, b) = 4

\* C10: once a page with content was processed, the store always holds a fingerprint
\* within distance 3 of that page's, and a later page with the same text is a duplicate
\* that yields no links.
C10_ProcessedStaysCovered ==
    /\ [](\A i \in 1..Len(log) :
            \E s \in visited_simhashes : Hamming(s, log[i].simhash) <= 3)
    /\ [][(ContentCall /\ \E i \in 1..Len(log) : log[i].text = get_text(page'.content)) =>
            /\ visited_simhashes' = visited_simhashes
            /\ links' = <<>>
            /\ ret' = <<>>]_vars

\* a page with anchors repeated the text of an earlier page and yielded no link
C10_Witness ==
    /\ pc = "done"
    /\ Len(log) = 2
    /\ log[1].text = log[2].text
    /\ find_all_href(page.content) # <<>>
    /\ links = <<>>
    /\ ret = <<>>

-----------------------------------------------------------------------------
(* Properties of is_valid (SpecValid)                                      *)

ArgParsed == urlparse(arg)

\* the URL's host: the netloc without its port, in lower case
Hostname(netloc) == Lower(SplitAt(netloc, ":")[1])

ClaimedDomains ==
    {"ics.uci.edu", "cs.uci.edu", "informatics.uci.edu", "stat.uci.edu", "today.uci.edu"}

\* the host is an allowed domain or a subdomain of one
HostInScope(h) == \E d \in ClaimedDomains : h = d \/ EndsWith(h, "." \o d)

\* C4: the domain check passes exactly for a host that is an allowed domain or a
\* subdomain of one, matched at a label boundary: no accepted URL has a host outside
\* the allowed domains, and a host that is an allowed domain passes the check.
\* (Stated for a netloc that is a plain lower-case host.)
C4_DomainLabelBoundary ==
    (pc = "answered" /\ valid_out.exc = "" /\ Hostname(ArgParsed.netloc) = ArgParsed.netloc) =>
        /\ valid_out.val => HostInScope(ArgParsed.netloc)
        /\ HostInScope(ArgParsed.netloc) => DomainCheck(ArgParsed.netloc)

\* C5: is_valid ends with a boolean for every string, and with False for a string that
\* cannot be parsed.
C5_IsValidNeverRaises ==
    pc = "answered" =>
        /\ valid_out.exc = ""
        /\ ArgParsed.exc # "" => valid_out.val = FALSE

-----------------------------------------------------------------------------
(* Properties of concurrent workers (SpecConc)                             *)

\* C2: check-then-insert is atomic: two pages within Hamming distance 3 of each other,
\* processed by concurrently running calls, are never both judged novel.
C2_AtomicCheckThenInsert ==
    \A t, u \in Threads :
        (t # u /\ th[t].novel /\ th[u].novel) => Hamming(th[t].simhash, th[u].simhash) > 3

====
